---- MODULE Spec2Model ----
(***************************************************************************)
(* A model of the AIStore Python client pieces:                            *)
(*   - aistore.sdk.object.Object (head, get, put, promote, delete),        *)
(*   - openapi_client.models.cluster_map.ClusterMap (constructor, setters). *)
(* RequestClient.request, ObjStream and the constants of aistore.sdk.const *)
(* lie outside these files; they are modelled from the design document.    *)
(*                                                                         *)
(* Python's None is the empty tuple and a present value v is <<v>>, so     *)
(* that None, "" and b"" stay three different values.                      *)
(***************************************************************************)
EXTENDS Integers, Sequences, FiniteSets

\* ------------------------------------------------------------------ bounds
MaxLen == 4        \* longest response body, in bytes
MaxChunk == 3      \* explicit chunk sizes are 1..MaxChunk
MaxDrains == 2     \* how often the caller may run into the end of a stream
MaxVersion == 3    \* cluster map versions are 0..MaxVersion

\* ------------------------------------------------------------ Python values
None == <<>>
Some(v) == <<v>>

\* bool(s) of an optional str: None and "" are falsy
TruthyStr(o) == o # None /\ o[1] # ""
\* bool(b) of an optional bytes: None and b"" are falsy
TruthyBytes(o) == o # None /\ Len(o[1]) > 0

Min(a, b) == IF a < b THEN a ELSE b

\* dict[k] = v on a dict held as a set of <<key, value>> pairs
DictSet(d, k, v) == {p \in d : p[1] # k} \cup {<<k, v>>}

\* ------------------------------------------------------------------ inputs
\* the response bodies: of every length up to MaxLen, byte i being i, so that
\* a byte delivered twice, dropped or out of order shows
Bodies == {[i \in 1..n |-> i % 256] : n \in 0..MaxLen}

BckName == "bck"
ObjName == "obj"
\* the one endpoint the client is built from (Client.__init__): the member
\* every request of this client goes to, the cluster's primary proxy
Endpoint == "primary"
Targets == {"t1", "t2"}

\* the bucket's query parameters (provider, namespace) when the Object is built
InitQparam == {<<"provider", "ais">>}

QParamArchpath == "archpath"
QParamETLName == "etl_name"
ACT_PROMOTE == "promote"
\* aistore.sdk.const.DEFAULT_CHUNK_SIZE: larger than every body of the model
DEFAULT_CHUNK_SIZE == 32768

\* what the cluster answers to one network request
Responses(bodies) ==
    {[kind |-> "http", status |-> 200, body |-> b] : b \in bodies}
    \cup {[kind |-> "http", status |-> s, body |-> <<>>] : s \in {404, 500}}
    \cup {[kind |-> k, status |-> 0, body |-> <<>>] : k \in {"conn", "timeout"}}

\* local files open(path, "rb") can read; any other path raises OSError
FileExists(p) == p = "/f"
FileContent(p) == <<1>>

Paths == {None, Some(""), Some("/f"), Some("/nofile")}
Contents == {None, Some(<<>>), Some(<<1>>)}
Archpaths == {"", "a.txt"}
EtlNames == {None, Some(""), Some("etl1")}
ChunkSizes == {DEFAULT_CHUNK_SIZE} \cup 1..MaxChunk
Writers == {None, Some("w")}
\* PromoteOptions: None, or options carrying a target_id ("" when not pinned)
PromoteOpts == {None} \cup {Some([target_id |-> t]) : t \in {""} \cup Targets}

VARIABLES
    qparam,     \* the bucket-owned query-parameter dict (Object._qparams aliases it)
    call,       \* the last Object call and its arguments
    resp,       \* what the cluster answered to that call's request
    reqs,       \* the network requests that call issued, in order
    raised,     \* the error that call raised, "none" when it returned
    ret,        \* the headers that call returned, None otherwise
    opened,     \* whether that call opened a local file
    stream,     \* the ObjStream that call returned, None otherwise
    sink,       \* the chunks that call wrote to the writer, in order
    yielded,    \* the chunks the returned stream yielded to the caller, in order
    drains,     \* how often the caller ran into the end of the returned stream
    supplied,   \* whether an earlier get call supplied an archpath or an etl_name
    tmap, pmap, proxy_si, version,   \* the held ClusterMap's attributes
    applied     \* the versions assigned to the held ClusterMap instance so far

objvars == <<qparam, call, resp, reqs, raised, ret, opened, stream, sink, yielded, drains,
            supplied>>
mapvars == <<tmap, pmap, proxy_si, version, applied>>
vars == <<qparam, call, resp, reqs, raised, ret, opened, stream, sink, yielded, drains,
          supplied, tmap, pmap, proxy_si, version, applied>>

\* ------------------------------------------------- RequestClient (from the design)
\* 2xx is success, 404 is NotFound, any other status an API error; transport
\* failures keep their own kinds
Classify(r) ==
    IF r.kind = "conn" THEN "ConnectionError"
    ELSE IF r.kind = "timeout" THEN "Timeout"
    ELSE IF r.status = 200 THEN "none"
    ELSE IF r.status = 404 THEN "NotFound"
    ELSE "ApiError"

\* RequestClient.request: one network request, classified; params is only read.
\* The Object methods pass it a method, a path, params and a body, never a
\* member to address: the request goes to the client's endpoint
request(method, path, params, data, json, r) ==
    [req |-> [method |-> method, path |-> path, params |-> params,
              data |-> data, json |-> json, dest |-> Endpoint],
     raised |-> Classify(r),
     headers |-> [status |-> r.status, length |-> Len(r.body)],
     body |-> r.body]

\* ------------------------------------------------------ ObjStream (from the design)
ObjStream(body, response_headers, chunk_size) ==
    [body |-> body, headers |-> response_headers, chunk_size |-> chunk_size, pos |-> 0]

\* the next chunk of a stream: at most chunk_size bytes from the read position
NextChunk(s) == SubSeq(s.body, s.pos + 1, Min(s.pos + s.chunk_size, Len(s.body)))
Advance(s) == [s EXCEPT !.pos = Min(s.pos + s.chunk_size, Len(s.body))]
AtEnd(s) == s.pos >= Len(s.body)

RECURSIVE Drain(_)
\* every chunk a stream still yields, in order
Drain(s) == IF AtEnd(s) THEN <<>> ELSE <<NextChunk(s)>> \o Drain(Advance(s))
Drained(s) == [s EXCEPT !.pos = Len(s.body)]

\* ------------------------------------------------------------------ Object
ObjectPath == <<"objects", BckName, ObjName>>
BucketPath == <<"objects", BckName>>

\* what one Object call did: the error raised ("none" when it returned), the
\* requests issued, the headers returned, whether a local file was opened, the
\* stream returned, the chunks written to the writer, and the bucket-owned
\* query parameters after the call
Outcome(err, sent, headers, didOpen, s, written, q) ==
    [raised |-> err, reqs |-> sent, ret |-> headers, opened |-> didOpen,
     stream |-> s, sink |-> written, qparam |-> q]

\* what a call returns of a request's result: the headers, unless it raised
Returned(rs) == IF rs.raised = "none" THEN Some(rs.headers) ELSE None

\* Object.head
head(q, r) ==
    LET rs == request("HEAD", ObjectPath, q, None, None, r)
    IN Outcome(rs.raised, <<rs.req>>, Returned(rs), FALSE, None, <<>>, q)

GetQparamsAliased(q, archpath, etl_name) ==
    LET p1 == DictSet(q, QParamArchpath, archpath)
        p2 == IF TruthyStr(etl_name) THEN DictSet(p1, QParamETLName, etl_name[1]) ELSE p1
    IN [params |-> p2, owner |-> p2]

\* Object.get, the query parameters: a copy of the bucket's dict with archpath
\* always set and etl_name set when truthy; owner is the bucket's dict afterwards
GetQparams(q, archpath, etl_name) ==
    LET p1 == DictSet(q, QParamArchpath, archpath)
        p2 == IF TruthyStr(etl_name) THEN DictSet(p1, QParamETLName, etl_name[1]) ELSE p1
    IN [params |-> p2, owner |-> q]

NewObjStreamDefaultChunk(rs, chunk_size) ==
    ObjStream(rs.body, rs.headers, DEFAULT_CHUNK_SIZE)

\* Object.get, the stream over the response with the call's chunk size
NewObjStream(rs, chunk_size) == ObjStream(rs.body, rs.headers, chunk_size)

WriteLinesFromCopy(s, writer) ==
    IF writer # None
    THEN [sink |-> Drain(s), stream |-> s]
    ELSE [sink |-> <<>>, stream |-> s]

\* Object.get, writer.writelines(obj_stream): iterates the stream to its end,
\* writing each chunk; the stream that is returned is that same, drained stream
WriteLines(s, writer) ==
    IF writer # None
    THEN [sink |-> Drain(s), stream |-> Drained(s)]
    ELSE [sink |-> <<>>, stream |-> s]

\* Object.get
get(q, archpath, chunk_size, etl_name, writer, r) ==
    LET gp == GetQparams(q, archpath, etl_name)
        rs == request("GET", ObjectPath, gp.params, None, None, r)
    IN IF rs.raised # "none"
       THEN Outcome(rs.raised, <<rs.req>>, None, FALSE, None, <<>>, gp.owner)
       ELSE LET w == WriteLines(NewObjStream(rs, chunk_size), writer)
            IN Outcome("none", <<rs.req>>, None, FALSE, Some(w.stream), w.sink, gp.owner)

putRetryOnTimeout(q, path, content, r) ==
    IF TruthyStr(path) /\ TruthyBytes(content)
    THEN Outcome("ValueError", <<>>, None, FALSE, None, <<>>, q)
    ELSE IF TruthyStr(path) /\ ~FileExists(path[1])
    THEN Outcome("OSError", <<>>, None, TRUE, None, <<>>, q)
    ELSE LET data == IF TruthyStr(path) THEN Some(FileContent(path[1])) ELSE content
             rs == request("PUT", ObjectPath, q, data, None, r)
         IN Outcome(rs.raised,
                    IF rs.raised = "Timeout" THEN <<rs.req, rs.req>> ELSE <<rs.req>>,
                    Returned(rs), TruthyStr(path), None, <<>>, q)

\* Object.put: path and content both truthy is a ValueError; a truthy path is
\* opened and read, else the content is the data; one PUT
put(q, path, content, r) ==
    IF TruthyStr(path) /\ TruthyBytes(content)
    THEN Outcome("ValueError", <<>>, None, FALSE, None, <<>>, q)
    ELSE IF TruthyStr(path) /\ ~FileExists(path[1])
    THEN Outcome("OSError", <<>>, None, TRUE, None, <<>>, q)
    ELSE LET data == IF TruthyStr(path) THEN Some(FileContent(path[1])) ELSE content
             rs == request("PUT", ObjectPath, q, data, None, r)
         IN Outcome(rs.raised, <<rs.req>>, Returned(rs), TruthyStr(path), None, <<>>, q)

\* PromoteAPIArgs(...).get_json(), the flags at their defaults
PromoteAPIArgs(target_id, source_path, object_name) ==
    [tid |-> target_id, src |-> source_path, obj |-> object_name]

\* Object.promote, the value of the action message: without options the
\* target_id keeps its default, with options it is the options' target_id
PromoteValue(path, promote_options) ==
    IF promote_options = None
    THEN PromoteAPIArgs("", path, ObjName)
    ELSE PromoteAPIArgs(promote_options[1].target_id, path, ObjName)

\* Object.promote
promote(q, path, promote_options, r) ==
    LET value == PromoteValue(path, promote_options)
        json_val == [action |-> ACT_PROMOTE, name |-> path, value |-> value]
        rs == request("POST", BucketPath, q, None, Some(json_val), r)
    IN Outcome(rs.raised, <<rs.req>>, Returned(rs), FALSE, None, <<>>, q)

deleteIgnoresMissing(q, r) ==
    LET rs == request("DELETE", ObjectPath, q, None, None, r)
    IN Outcome(IF rs.raised = "NotFound" THEN "none" ELSE rs.raised,
               <<rs.req>>, None, FALSE, None, <<>>, q)

\* Object.delete
delete(q, r) ==
    LET rs == request("DELETE", ObjectPath, q, None, None, r)
    IN Outcome(rs.raised, <<rs.req>>, None, FALSE, None, <<>>, q)

\* ------------------------------------------------------------ Object actions
NoArgs == [op |-> "none", path |-> None, content |-> None, archpath |-> "",
           chunk_size |-> DEFAULT_CHUNK_SIZE, etl_name |-> None, writer |-> None,
           promote_options |-> None, source_path |-> ""]
NoResp == [kind |-> "none", status |-> 0, body |-> <<>>]

\* a get call that supplied a non-empty archpath or an etl_name
SuppliesParams(c) == c.archpath # "" \/ TruthyStr(c.etl_name)

\* the state after a call c answered by r with outcome o
Finish(c, r, o) ==
    /\ call' = c
    /\ resp' = r
    /\ qparam' = o.qparam
    /\ reqs' = o.reqs
    /\ raised' = o.raised
    /\ ret' = o.ret
    /\ opened' = o.opened
    /\ stream' = o.stream
    /\ sink' = o.sink
    /\ yielded' = <<>>
    /\ drains' = 0
    /\ supplied' = (supplied \/ (call.op = "get" /\ SuppliesParams(call)))
    /\ UNCHANGED mapvars

Object_head ==
    \E r \in Responses({<<>>}) :
        Finish([NoArgs EXCEPT !.op = "head"], r, head(qparam, r))

Object_get ==
    \E archpath \in Archpaths, chunk_size \in ChunkSizes, etl_name \in EtlNames,
       writer \in Writers, r \in Responses(Bodies) :
        Finish([NoArgs EXCEPT !.op = "get", !.archpath = archpath,
                              !.chunk_size = chunk_size, !.etl_name = etl_name,
                              !.writer = writer],
               r, get(qparam, archpath, chunk_size, etl_name, writer, r))

Object_put ==
    \E path \in Paths, content \in Contents, r \in Responses({<<>>}) :
        Finish([NoArgs EXCEPT !.op = "put", !.path = path, !.content = content],
               r, put(qparam, path, content, r))

Object_promote ==
    \E promote_options \in PromoteOpts, r \in Responses({<<>>}) :
        Finish([NoArgs EXCEPT !.op = "promote", !.source_path = "/data/x",
                              !.promote_options = promote_options],
               r, promote(qparam, "/data/x", promote_options, r))

Object_delete ==
    \E r \in Responses({<<>>}) :
        Finish([NoArgs EXCEPT !.op = "delete"], r, delete(qparam, r))

\* the caller takes the next chunk of the returned stream, or runs into its end
ReadChunk ==
    /\ stream # None
    /\ drains < MaxDrains
    /\ IF AtEnd(stream[1])
       THEN /\ drains' = drains + 1
            /\ UNCHANGED <<stream, yielded>>
       ELSE /\ yielded' = Append(yielded, NextChunk(stream[1]))
            /\ stream' = Some(Advance(stream[1]))
            /\ UNCHANGED drains
    /\ UNCHANGED <<qparam, call, resp, reqs, raised, ret, opened, sink, supplied>>
    /\ UNCHANGED mapvars

\* -------------------------------------------------------------- ClusterMap
Proxies == {"p1", "p2"}
\* a dict(str, DaemonInfo) keyed by member identifier; a DaemonInfo is its identifier
Smap(ids) == {<<i, i>> : i \in ids}
TmapValues == {None} \cup {Some(Smap(S)) : S \in SUBSET Targets}
PmapValues == {None} \cup {Some(Smap(S)) : S \in SUBSET Proxies}
ProxySiValues == {None} \cup {Some(p) : p \in Proxies}
VersionValues == {None} \cup {Some(v) : v \in 0..MaxVersion}

\* the setters: each stores what it is given; cur is the attribute before
set_tmap(cur, v) == v
set_pmap(cur, v) == v
set_proxy_si(cur, v) == v
set_version(cur, v) == v

\* ClusterMap.__init__: every attribute None, then each argument that is not
\* None goes through its setter
InitAttr(arg, assigned) == IF arg # None THEN assigned ELSE None

Applied(v) == IF v # None THEN applied \cup {v[1]} ELSE applied

Construct ==
    \E t \in TmapValues, p \in PmapValues, si \in ProxySiValues, v \in VersionValues :
        /\ tmap' = InitAttr(t, set_tmap(None, t))
        /\ pmap' = InitAttr(p, set_pmap(None, p))
        /\ proxy_si' = InitAttr(si, set_proxy_si(None, si))
        /\ version' = InitAttr(v, set_version(None, v))
        /\ applied' = (IF v # None THEN {v[1]} ELSE {})
        /\ UNCHANGED objvars

SetTmap ==
    \E t \in TmapValues :
        /\ tmap' = set_tmap(tmap, t)
        /\ UNCHANGED <<pmap, proxy_si, version, applied>>
        /\ UNCHANGED objvars

SetPmap ==
    \E p \in PmapValues :
        /\ pmap' = set_pmap(pmap, p)
        /\ UNCHANGED <<tmap, proxy_si, version, applied>>
        /\ UNCHANGED objvars

SetProxySi ==
    \E si \in ProxySiValues :
        /\ proxy_si' = set_proxy_si(proxy_si, si)
        /\ UNCHANGED <<tmap, pmap, version, applied>>
        /\ UNCHANGED objvars

SetVersion ==
    \E v \in VersionValues :
        /\ version' = set_version(version, v)
        /\ applied' = Applied(v)
        /\ UNCHANGED <<tmap, pmap, proxy_si>>
        /\ UNCHANGED objvars

\* ---------------------------------------------------------- specifications
Init ==
    /\ qparam = InitQparam
    /\ call = NoArgs
    /\ resp = NoResp
    /\ reqs = <<>>
    /\ raised = "none"
    /\ ret = None
    /\ opened = FALSE
    /\ stream = None
    /\ sink = <<>>
    /\ yielded = <<>>
    /\ drains = 0
    /\ supplied = FALSE
    /\ tmap = None
    /\ pmap = None
    /\ proxy_si = None
    /\ version = None
    /\ applied = {}

Next ==
    Object_head \/ Object_get \/ Object_put \/ Object_promote \/ Object_delete \/ ReadChunk
Spec == Init /\ [][Next]_vars

MapNext == Construct \/ SetTmap \/ SetPmap \/ SetProxySi \/ SetVersion
SpecMap == Init /\ [][MapNext]_vars

\* ------------------------------------------------------------------ claims
RECURSIVE Flatten(_)
\* the bytes of a sequence of chunks, joined in order
Flatten(chunks) ==
    IF chunks = <<>> THEN <<>> ELSE Head(chunks) \o Flatten(Tail(chunks))

SetMax(S) == CHOOSE m \in S : \A x \in S : x <= m
ChunkLens(chunks) == [i \in 1..Len(chunks) |-> Len(chunks[i])]
RECURSIVE Sum(_)
Sum(ns) == IF ns = <<>> THEN 0 ELSE Head(ns) + Sum(Tail(ns))

\* C1: for a get call given a writer, once the caller has drained the
\* returned stream, the bytes written to the writer equal the bytes the stream
\* yielded to the caller, in the same order.
C1_SinkFidelity ==
    (call.op = "get" /\ call.writer # None /\ stream # None /\ drains >= 1)
        => Flatten(sink) = Flatten(yielded)

\* C2: the version of the held ClusterMap equals the maximum version among
\* all maps applied so far; a lower version never replaces a higher one.
C2_MapMonotonicity ==
    (version # None /\ applied # {}) => version[1] = SetMax(applied)

\* C3: a put call given a path together with content, empty content included,
\* raises ValueError, issues no network request and opens no local file.
C3_MutualExclusivity ==
    (call.op = "put" /\ TruthyStr(call.path) /\ call.content # None)
        => (raised = "ValueError" /\ reqs = <<>> /\ ~opened)

C5_SinglePass ==
    stream # None =>
        /\ stream[1].pos <= Len(stream[1].body)
        /\ Flatten(sink) \o Flatten(yielded) = SubSeq(stream[1].body, 1, stream[1].pos)
        /\ (drains >= 1 => Flatten(sink) \o Flatten(yielded) = stream[1].body)

C5_Witness ==
    /\ stream # None
    /\ call.writer = None
    /\ drains >= 2
    /\ Len(stream[1].body) >= 2
    /\ Flatten(yielded) = stream[1].body

\* C6: the chunks a get call with chunk size N produces are N bytes each,
\* except the final one, which has 1..N bytes; they sum to the body's length
\* once the stream is at its end; N is the chunk size given to that call.
C6_ChunkSizeHonored ==
    stream # None =>
        LET lens == ChunkLens(sink \o yielded)
            N == call.chunk_size
        IN /\ stream[1].chunk_size = N
           /\ \A i \in 1..Len(lens) :
                 /\ lens[i] \in 1..N
                 /\ lens[i] < N => (i = Len(lens) /\ AtEnd(stream[1]))
           /\ AtEnd(stream[1]) => Sum(lens) = Len(stream[1].body)

C6_Witness ==
    /\ stream # None
    /\ call.chunk_size = 3
    /\ ChunkLens(yielded) = <<3, 1>>
    /\ supplied    \* after an earlier get call
    /\ drains >= 1

\* C7: a head, get or delete call answered 404 raises NotFound, returns no
\* stream and writes nothing to the writer; a get call answered 200 returns
\* the response headers and a stream.
C7_NotFoundMapping ==
    /\ (call.op \in {"head", "get", "delete"} /\ resp.kind = "http" /\ resp.status = 404)
          => (raised = "NotFound" /\ stream = None /\ ret = None /\ sink = <<>>)
    /\ (call.op = "get" /\ resp.kind = "http" /\ resp.status = 200)
          => /\ raised = "none"
             /\ stream # None
             /\ stream[1].headers = [status |-> 200, length |-> Len(resp.body)]

C7_Witness ==
    /\ call.op = "get"
    /\ call.writer # None
    /\ resp.kind = "http"
    /\ resp.status = 404
    /\ raised = "NotFound"
    /\ stream = None

\* C8: a set primary proxy (proxy_si) is a member of the proxies mapping
\* (pmap), so pmap is non-empty whenever proxy_si is set.
C8_PrimaryInProxies ==
    proxy_si # None =>
        (pmap # None /\ \E e \in pmap[1] : e[2] = proxy_si[1])

\* C9: no Object call changes the bucket-owned query parameters, and every
\* request carries the bucket's parameters plus only what its own call
\* supplied: archpath and a truthy etl_name for get, nothing for the others.
C9_QparamsNotMutated ==
    /\ qparam = InitQparam
    /\ \A i \in 1..Len(reqs) :
          reqs[i].params =
              IF call.op = "get"
              THEN InitQparam \cup {<<QParamArchpath, call.archpath>>}
                   \cup (IF TruthyStr(call.etl_name)
                         THEN {<<QParamETLName, call.etl_name[1]>>} ELSE {})
              ELSE InitQparam

C9_Witness ==
    /\ supplied
    /\ call.op = "head"
    /\ Len(reqs) = 1
    /\ reqs[1].params = InitQparam
    /\ qparam = InitQparam

\* C10: no retries: every call issues at most one network request whatever the
\* answer, and an error answer is raised to the caller as it is.
C10_NoRetries ==
    /\ Len(reqs) <= 1
    /\ (Len(reqs) = 1 /\ Classify(resp) # "none") => raised = Classify(resp)

C10_Witness ==
    /\ call.op = "put"
    /\ resp.kind = "timeout"
    /\ Len(reqs) = 1
    /\ raised = "Timeout"
====
